---- MODULE Spec2Model ----
(***************************************************************************)
(* State-machine model of native-audio-service/python/local_stt_server.py  *)
(* (class STTServer): the per-speaker audio buffers, the ingest handler,   *)
(* the fast (draft) and slow (final) pass loops, the inference thread pool *)
(* and the session lifecycle of server_handler.                            *)
(*                                                                         *)
(* One state of the model is one point at which every coroutine of the     *)
(* asyncio event loop is suspended (at a sleep, at run_in_executor, at     *)
(* websocket.send or at the async-for of handle_client); one action is the *)
(* code a coroutine runs between two suspension points.                    *)
(***************************************************************************)
EXTENDS Integers, Sequences, FiniteSets, TLC

(***************************************************************************)
(* Bounds of the model.                                                    *)
(***************************************************************************)
\* Samples per second.  The program uses 16000 (line 21); the model scales
\* the rate down so that one window is a handful of bytes.  Every threshold
\* below is computed from it by the program's own formula.
SAMPLE_RATE == 5
\* The client stops sending audio for a speaker whose buffer would grow
\* beyond this many bytes.
MaxBuf == 43
\* Connections the client opens, one after the other.
MaxSessions == 2

(***************************************************************************)
(* Program constants (lines 27-30), in tenths of a second, and the pool    *)
(* size (line 66).                                                         *)
(***************************************************************************)
SLIDING_WINDOW_SEC == 4
FAST_LOOKBACK_SEC == 5
SLOW_WINDOW_SEC == 20
OVERLAP_SEC == 2
max_workers == 2

\* int(sec * SAMPLE_RATE * 2) for a duration given in tenths of a second.
ByteCount(tenths) == (tenths * SAMPLE_RATE * 2) \div 10

Speakers == {"user", "interviewer"}
Kinds == {"fast", "slow"}
Tasks == Speakers \X Kinds
speakerOf(t) == t[1]
kindOf(t) == t[2]

Max(a, b) == IF a >= b THEN a ELSE b
Min(a, b) == IF a <= b THEN a ELSE b

\* Python slices b[i:] and b[-n:] of a sequence indexed from 0.
SliceFrom(b, i) == SubSeq(b, Min(i, Len(b)) + 1, Len(b))
SliceTail(b, n) == IF n = 0 THEN b ELSE SubSeq(b, Max(0, Len(b) - n) + 1, Len(b))

RECURSIVE Flatten(_)
Flatten(ss) == IF ss = <<>> THEN <<>> ELSE Head(ss) \o Flatten(Tail(ss))

(***************************************************************************)
(* Hex payloads: bytes.fromhex (line 93) and the client's encoding.        *)
(***************************************************************************)
HexDigits == <<"0", "1", "2", "3", "4", "5", "6", "7",
               "8", "9", "a", "b", "c", "d", "e", "f">>
IsHexDigit(c) == \E i \in 1..16 : HexDigits[i] = c
HexVal(c) == (CHOOSE i \in 1..16 : HexDigits[i] = c) - 1
IsSpace(c) == c = " "

\* The client's side: two lower-case digits per byte.
RECURSIVE ToHex(_)
ToHex(b) ==
    IF b = <<>> THEN <<>>
    ELSE <<HexDigits[(Head(b) \div 16) + 1], HexDigits[(Head(b) % 16) + 1]>>
         \o ToHex(Tail(b))

\* bytes.fromhex: white space is skipped between bytes, each byte is two hex
\* digits; anything else raises ValueError.  acc holds the bytes decoded so
\* far.
RECURSIVE fromhex_from(_, _)
fromhex_from(h, acc) ==
    IF h = <<>> THEN [ok |-> TRUE, bytes |-> acc]
    ELSE IF IsSpace(Head(h)) THEN fromhex_from(Tail(h), acc)
    ELSE IF Len(h) >= 2 /\ IsHexDigit(h[1]) /\ IsHexDigit(h[2])
    THEN fromhex_from(Tail(Tail(h)), Append(acc, 16 * HexVal(h[1]) + HexVal(h[2])))
    ELSE [ok |-> FALSE, bytes |-> <<>>]
fromhex(h) == fromhex_from(h, <<>>)

(***************************************************************************)
(* Segment texts: str.strip (lines 153, 217).                              *)
(***************************************************************************)
RECURSIVE lstrip(_)
lstrip(x) == IF x # <<>> /\ IsSpace(Head(x)) THEN lstrip(Tail(x)) ELSE x
RECURSIVE rstrip(_)
rstrip(x) ==
    IF x # <<>> /\ IsSpace(x[Len(x)]) THEN rstrip(SubSeq(x, 1, Len(x) - 1)) ELSE x
strip(x) == rstrip(lstrip(x))

(***************************************************************************)
(* Inbound messages.  json.loads is the json module's, not the program's:  *)
(* a message is modelled by what the parse yields.  kind "invalid" is text *)
(* that is not JSON, "array" is JSON that is not an object, "object" is an *)
(* object whose "speaker" and "audio" members are absent (tag "none"), a   *)
(* string (tag "str") or a non-zero number (tag "num").                    *)
(***************************************************************************)
NoField == [tag |-> "none", v |-> <<>>]
Str(x) == [tag |-> "str", v |-> x]
Num == [tag |-> "num", v |-> <<>>]
NoSpeaker == [tag |-> "none", v |-> ""]
Spk(x) == [tag |-> "str", v |-> x]
NumSpeaker == [tag |-> "num", v |-> ""]
Object(speaker, audio) == [kind |-> "object", speaker |-> speaker, audio |-> audio]
NotJson == [kind |-> "invalid", speaker |-> NoSpeaker, audio |-> NoField]
JsonArray == [kind |-> "array", speaker |-> NoSpeaker, audio |-> NoField]

\* The audio a client encodes: n bytes counting up from first.
Chunk(first, n) == [i \in 1..n |-> first + i - 1]
AudioMsg(s, bytes) == Object(Spk(s), Str(ToHex(bytes)))

\* Python truth value of a member fetched with data.get (line 84).
TruthySpeaker(f) == f.tag = "num" \/ (f.tag = "str" /\ f.v # "")
TruthyAudio(f) == f.tag = "num" \/ (f.tag = "str" /\ f.v # <<>>)

\* Exception classes the program meets.  CancelledError derives from
\* BaseException, so "except Exception" (lines 107, 165, 229) lets it pass.
\* (As a bare "except:" or "except BaseException" would behave.)
except_BaseException(exc) == TRUE
except_Exception(exc) == exc # "CancelledError"

\* Lines 80-97 for one message: the exception raised ("none" when none is),
\* and the speaker and bytes appended (no speaker when nothing is appended).
Outcome(exc, s, b) == [exc |-> exc, speaker |-> s, bytes |-> b]
handle_message(m) ==
    IF m.kind = "invalid" THEN Outcome("JSONDecodeError", "", <<>>)
    ELSE IF m.kind # "object" THEN Outcome("AttributeError", "", <<>>)
    ELSE IF ~TruthySpeaker(m.speaker) \/ ~TruthyAudio(m.audio)
    THEN Outcome("none", "", <<>>)
    ELSE IF ~(m.speaker.tag = "str" /\ m.speaker.v \in Speakers)
    THEN Outcome("none", "", <<>>)
    ELSE IF m.audio.tag # "str" THEN Outcome("TypeError", "", <<>>)
    ELSE LET d == fromhex(m.audio.v)
         IN  IF ~d.ok THEN Outcome("ValueError", "", <<>>)
             ELSE Outcome("none", m.speaker.v, d.bytes)

\* (With the clause of line 105 alone.)
message_except_json(exc) == exc = "JSONDecodeError"
\* The except clauses of lines 105-108.
message_except(exc) == exc = "JSONDecodeError" \/ except_Exception(exc)

\* (Inserting at the front instead.)
extend_front(buf, bytes) == bytes \o buf
\* bytearray.extend (line 97).
extend(buf, bytes) == buf \o bytes

(***************************************************************************)
(* State.                                                                  *)
(***************************************************************************)
VARIABLES
    buffers,        \* self.buffers: speaker -> bytes
    locks,          \* self.locks: speaker -> locked?
    last_fast_text, \* self.last_fast_text: speaker -> stripped text
    slow_offsets,   \* self.slow_offsets: speaker -> byte offset
    session,        \* "closed" or "open": a server_handler is running
    nsessions,      \* connections served so far
    inbox,          \* the message the async-for of handle_client has
                    \*   received and not yet handled, or NoMessage
    pc,             \* task -> where the coroutine is suspended
    cancel_req,     \* task -> cancel() was called and is not yet delivered
    window,         \* task -> buffer_tail / data_to_process of the tick
    segments,       \* task -> segments of the result still to loop over
    response,       \* task -> the response handed to websocket.send
    queue,          \* executor: submitted calls waiting for a worker
    orphans,        \* executor: running calls whose task was cancelled
    accepted,       \* history: speaker -> the chunks appended, in order
    submitted,      \* history: speaker -> <<start, end>> of each window
                    \*   handed to run_in_executor by the slow pass
    tick_cursor,    \* history: speaker -> slow_offsets when the slow tick
                    \*   with a call in flight began
    last_result,    \* history: speaker -> stripped texts of the latest
                    \*   result of the fast pass
    repeated,       \* history: speaker -> the latest result of the fast
                    \*   pass had the texts of the one before it
    served,         \* history: speaker -> final_model.transcribe was
                    \*   called for a window of the speaker
    crossed,        \* history: an operation on one speaker has taken the
                    \*   lock of the other
    dropped,        \* history: handle_client has dropped a message
    after_drop      \* history: the latest chunk appended came after a
                    \*   dropped message

vars == <<buffers, locks, last_fast_text, slow_offsets, session, nsessions,
          inbox, pc, cancel_req, window, segments, response, queue, orphans,
          accepted, submitted, tick_cursor, last_result, repeated, served,
          crossed, dropped, after_drop>>

shared == <<buffers, locks, last_fast_text, slow_offsets>>
taskVars == <<pc, cancel_req, window, segments, response, queue, orphans>>
history == <<accepted, submitted, tick_cursor, last_result, repeated, served,
             crossed, dropped, after_drop>>
ingestHistory == <<dropped, after_drop>>
fastHistory == <<last_result, repeated>>

NoResponse == [speaker |-> "", text |-> <<>>, final |-> FALSE]
NoResult == <<<<"none">>>>
NoMessage == [kind |-> "none", speaker |-> NoSpeaker, audio |-> NoField]

\* STTServer.__init__ (lines 52-73); no connection yet.
Init ==
    /\ buffers = [s \in Speakers |-> <<>>]
    /\ locks = [s \in Speakers |-> FALSE]
    /\ last_fast_text = [s \in Speakers |-> <<>>]
    /\ slow_offsets = [s \in Speakers |-> 0]
    /\ session = "closed"
    /\ nsessions = 0
    /\ inbox = NoMessage
    /\ pc = [t \in Tasks |-> "none"]
    /\ cancel_req = [t \in Tasks |-> FALSE]
    /\ window = [t \in Tasks |-> <<>>]
    /\ segments = [t \in Tasks |-> <<>>]
    /\ response = [t \in Tasks |-> NoResponse]
    /\ queue = <<>>
    /\ orphans = 0
    /\ accepted = [s \in Speakers |-> <<>>]
    /\ submitted = [s \in Speakers |-> <<>>]
    /\ tick_cursor = [s \in Speakers |-> 0]
    /\ last_result = [s \in Speakers |-> NoResult]
    /\ repeated = [s \in Speakers |-> FALSE]
    /\ served = [s \in Speakers |-> FALSE]
    /\ crossed = FALSE
    /\ dropped = FALSE
    /\ after_drop = FALSE

(***************************************************************************)
(* asyncio.Lock used as "async with" (lines 96, 123, 179).  No coroutine   *)
(* awaits inside a locked block, so a block runs within one action.        *)
(***************************************************************************)
lock_acquire(l, s) == [l EXCEPT ![s] = TRUE]
lock_release(l, s) == [l EXCEPT ![s] = FALSE]
\* (The block ends without the release.)
async_with_held(l, s) == lock_acquire(l, s)
async_with(l, s) == lock_release(lock_acquire(l, s), s)
\* (One lock for every speaker.)
lock_shared(speaker) == "user"
\* self.locks[speaker] (lines 96, 123, 179): the lock an operation on
\* speaker takes.
lock_for(speaker) == speaker

(***************************************************************************)
(* Session lifecycle: server_handler (lines 242-258).                      *)
(***************************************************************************)
\* Lines 246-253: the four tasks are created and handle_client starts.  A
\* task cancelled by the previous handler has been woken with its
\* CancelledError before the event loop serves another connection.
server_handler ==
    /\ session = "closed"
    /\ nsessions < MaxSessions
    /\ \A t \in Tasks : pc[t] \in {"none", "cancelled"}
    /\ session' = "open"
    /\ nsessions' = nsessions + 1
    /\ pc' = [t \in Tasks |-> "sleep"]
    /\ cancel_req' = [t \in Tasks |-> FALSE]
    /\ UNCHANGED <<shared, inbox, window, segments, response, queue, orphans,
                   history>>

\* Lines 254-258: the finally block cancels the four tasks.
cancel_all == [t \in Tasks |-> pc[t] \notin {"none", "cancelled"}]

\* handle_client returns: the client closed the connection (line 110) and
\* every message received before has been handled.
handler_exit ==
    /\ session = "open"
    /\ inbox = NoMessage
    /\ session' = "closed"
    /\ cancel_req' = cancel_all
    /\ UNCHANGED <<shared, nsessions, inbox, pc, window, segments, response,
                   queue, orphans, history>>

(***************************************************************************)
(* Ingest: handle_client (lines 75-113).                                   *)
(***************************************************************************)
\* The client sends a message; the room a valid chunk needs is the client's
\* own bound, cap.
client_send(m, cap) ==
    /\ session = "open"
    /\ inbox = NoMessage
    /\ m.speaker.v \in Speakers =>
           Len(buffers[m.speaker.v]) + Len(m.audio.v) \div 2 <= cap
    /\ inbox' = m
    /\ UNCHANGED <<shared, session, nsessions, taskVars, history>>

\* One turn of the async-for (lines 78-108).
handle_client ==
    /\ session = "open"
    /\ inbox # NoMessage
    /\ inbox' = NoMessage
    /\ LET o == handle_message(inbox)
       IN  IF o.exc # "none" /\ ~message_except(o.exc)
           THEN \* the exception leaves handle_client: lines 254-258
                /\ session' = "closed"
                /\ cancel_req' = cancel_all
                /\ UNCHANGED <<shared, accepted, crossed, ingestHistory>>
           ELSE IF o.exc = "none" /\ o.speaker \in Speakers
           THEN /\ ~locks[lock_for(o.speaker)]
                /\ buffers' = [buffers EXCEPT
                                  ![o.speaker] = extend(@, o.bytes)]
                /\ locks' = async_with(locks, lock_for(o.speaker))
                /\ crossed' = (crossed \/ lock_for(o.speaker) # o.speaker)
                /\ accepted' = [accepted EXCEPT
                                   ![o.speaker] = Append(@, inbox)]
                /\ after_drop' = dropped
                /\ UNCHANGED <<last_fast_text, slow_offsets, session,
                               cancel_req, dropped>>
           ELSE /\ dropped' = TRUE
                /\ UNCHANGED <<shared, accepted, crossed, session, cancel_req,
                               after_drop>>
    /\ UNCHANGED <<nsessions, pc, window, segments, response, queue, orphans,
                   submitted, tick_cursor, fastHistory, served>>

(***************************************************************************)
(* The inference thread pool: ThreadPoolExecutor(max_workers=2), line 66.  *)
(* A call is "running" on a worker or waits in the queue; a call whose     *)
(* task was cancelled while it ran keeps its worker until it returns.      *)
(***************************************************************************)
Running(p) == Cardinality({t \in Tasks : p[t] = "running"})

\* (A pool that starts every call at once.)
Submit_unbounded(t) == pc' = [pc EXCEPT ![t] = "running"] /\ queue' = queue
\* run_in_executor (lines 149, 210) by task t.
Submit(t) ==
    IF Running(pc) + orphans < max_workers
    THEN /\ pc' = [pc EXCEPT ![t] = "running"]
         /\ queue' = queue
    ELSE /\ pc' = [pc EXCEPT ![t] = "queued"]
         /\ queue' = Append(queue, t)

\* A worker is free again: it takes the next waiting call.  p is pc with the
\* returning task already moved on.
NextCall(p) ==
    IF queue = <<>> THEN [pc |-> p, queue |-> queue]
    ELSE [pc |-> [p EXCEPT ![Head(queue)] = "running"], queue |-> Tail(queue)]

(***************************************************************************)
(* The calls.  transcribe_fast (lines 137-147) returns the engine's        *)
(* segments or raises what the engine raises.  transcribe_slow (lines      *)
(* 200-208) reads audio_array, a name slow_loop never binds (the module    *)
(* has no such global either): it raises NameError before it reaches       *)
(* final_model.transcribe.                                                 *)
(***************************************************************************)
\* engine: the call got as far as the engine's transcribe.
Raised(exc, engine) == [exc |-> exc, segments |-> <<>>, engine |-> engine]
Returned(segs) == [exc |-> "none", segments |-> segs, engine |-> TRUE]
transcribe_fast(results) ==
    {Returned(r) : r \in results} \cup {Raised("RuntimeError", TRUE)}
transcribe_slow(results) == {Raised("NameError", FALSE)}
transcribe(k, results) ==
    IF k = "fast" THEN transcribe_fast(results) ELSE transcribe_slow(results)

(***************************************************************************)
(* The for loops over the segments (lines 152-163 and 213-223), run up to  *)
(* the next websocket.send or to the end of the result.                    *)
(***************************************************************************)
Emit(last, send, resp, rest) ==
    [last |-> last, send |-> send, response |-> resp, rest |-> rest]

\* (Without the test for an empty text.)
fast_emits_empty(text, last) == text # last
\* Lines 153-155: is the segment's text sent, given last_fast_text?
fast_emits(text, last) == text # <<>> /\ text # last

RECURSIVE fast_for(_, _, _)
fast_for(s, segs, last) ==
    IF segs = <<>> THEN Emit(last, FALSE, NoResponse, <<>>)
    ELSE LET text == strip(Head(segs))
         IN  IF fast_emits(text, last)
             THEN Emit(text, TRUE,
                       [speaker |-> s, text |-> text, final |-> FALSE],
                       Tail(segs))
             ELSE fast_for(s, Tail(segs), last)

RECURSIVE slow_for(_, _, _)
slow_for(s, segs, last) ==
    IF segs = <<>> THEN Emit(last, FALSE, NoResponse, <<>>)
    ELSE LET text == strip(Head(segs))
         IN  IF text # <<>>
             THEN Emit(last, TRUE,
                       [speaker |-> s, text |-> text, final |-> TRUE],
                       Tail(segs))
             ELSE slow_for(s, Tail(segs), last)

for_segments(t, segs, last) ==
    IF kindOf(t) = "fast" THEN fast_for(speakerOf(t), segs, last)
    ELSE slow_for(speakerOf(t), segs, last)

\* Task t goes on looping over segs: to the send of the next response, or
\* back to the interval sleep.  p is pc after what the caller did.
Loop(t, segs, p) ==
    LET e == for_segments(t, segs, last_fast_text[speakerOf(t)])
    IN  /\ last_fast_text' = [last_fast_text EXCEPT ![speakerOf(t)] = e.last]
        /\ response' = [response EXCEPT ![t] = e.response]
        /\ segments' = [segments EXCEPT ![t] = e.rest]
        /\ pc' = [p EXCEPT ![t] = IF e.send THEN "send" ELSE "sleep"]

\* A task takes its next step unless cancel() was called on it: then the
\* step is the delivery of CancelledError (deliver_cancel below).
Live(t) == ~cancel_req[t]

\* (The loop ends at whatever is raised.)
after_raise_ends(exc) == "cancelled"
\* exc is raised inside the try block of task t: the loop logs it and
\* sleeps 1 s if the clause catches it; otherwise it ends the task.
after_raise(exc) == IF except_Exception(exc) THEN "backoff" ELSE "cancelled"

(***************************************************************************)
(* fast_loop (lines 115-167).                                              *)
(***************************************************************************)
\* Lines 125-130, under the lock: the window of the tick, or no window.
fast_min == ByteCount(SLIDING_WINDOW_SEC)
tail_bytes == ByteCount(FAST_LOOKBACK_SEC)
fast_skips(buf) == Len(buf) < fast_min
\* (The whole buffer.)
fast_whole(buf) == buf
fast_window(buf) == SliceTail(buf, tail_bytes)
\* (The buffer cut down to the tail.)
after_slice_tail(buf) == SliceTail(buf, tail_bytes)
\* The buffer after line 130: the slice is a copy, the buffer is as it was.
after_slice(buf) == buf

\* np.frombuffer (line 133) raises ValueError for a tail that is not a whole
\* number of 2-byte samples.  A tail of tail_bytes is one; a shorter tail is
\* the whole buffer, as long as the client made it, and a byte here stands
\* for a run of bytes there: it may be one or not.
frombuffer_raises(tail) == Len(tail) < tail_bytes

\* The interval sleep ends (line 120) and the tick runs to run_in_executor.
fast_tick(s) ==
    LET t == <<s, "fast">>
    IN  /\ pc[t] = "sleep"
        /\ Live(t)
        /\ ~locks[lock_for(s)]
        /\ locks' = async_with(locks, lock_for(s))
        /\ crossed' = (crossed \/ lock_for(s) # s)
        /\ IF fast_skips(buffers[s])
           THEN UNCHANGED <<pc, queue, window>>
           ELSE \/ /\ window' = [window EXCEPT ![t] = fast_window(buffers[s])]
                   /\ Submit(t)
                \/ /\ frombuffer_raises(fast_window(buffers[s]))
                   /\ pc' = [pc EXCEPT ![t] = after_raise("ValueError")]
                   /\ UNCHANGED <<queue, window>>
        /\ buffers' = IF fast_skips(buffers[s]) THEN buffers
                      ELSE [buffers EXCEPT ![s] = after_slice(@)]
        /\ UNCHANGED <<last_fast_text, slow_offsets, session,
                       nsessions, inbox, cancel_req, segments, response,
                       orphans, accepted, submitted, tick_cursor,
                       fastHistory, served, ingestHistory>>

(***************************************************************************)
(* slow_loop (lines 169-231).                                              *)
(***************************************************************************)
bytes_needed == ByteCount(SLOW_WINDOW_SEC)
overlap_bytes == ByteCount(OVERLAP_SEC)
\* (Every window from the start of the buffer.)
start_index_zero(offset) == 0
\* Line 187.
start_index(offset) == Max(0, offset - overlap_bytes)
\* (One past the end of the buffer.)
slow_commit_ahead(offset, buffer_len) == buffer_len + 1
\* Line 193: the offset the tick leaves, given the one it found.
slow_commit(offset, buffer_len) == buffer_len

\* The interval sleep ends (line 174) and the tick runs to run_in_executor.
slow_tick(s) ==
    LET t == <<s, "slow">>
        buffer_len == Len(buffers[s])
        start == start_index(slow_offsets[s])
        data_to_process == SliceFrom(buffers[s], start)
    IN  /\ pc[t] = "sleep"
        /\ Live(t)
        /\ ~locks[lock_for(s)]
        /\ locks' = async_with(locks, lock_for(s))
        /\ crossed' = (crossed \/ lock_for(s) # s)
        /\ IF buffer_len < bytes_needed
           THEN \* line 182
                UNCHANGED <<slow_offsets, pc, queue, window, submitted,
                            tick_cursor>>
           ELSE /\ slow_offsets' = [slow_offsets EXCEPT
                       ![s] = slow_commit(@, buffer_len)]
                /\ IF Len(data_to_process) < bytes_needed
                   THEN \* line 197
                        UNCHANGED <<pc, queue, window, submitted, tick_cursor>>
                   ELSE /\ window' = [window EXCEPT ![t] = data_to_process]
                        /\ submitted' = [submitted EXCEPT
                               ![s] = Append(@, <<start, buffer_len>>)]
                        /\ tick_cursor' = [tick_cursor EXCEPT
                               ![s] = slow_offsets[s]]
                        /\ Submit(t)
        /\ UNCHANGED <<buffers, last_fast_text, session, nsessions, inbox,
                       cancel_req, segments, response, orphans, accepted,
                       fastHistory, served, ingestHistory>>

(***************************************************************************)
(* What both loops share: the except clause (lines 165-167, 229-231), the  *)
(* return of the call, of the send and of the back-off sleep.              *)
(***************************************************************************)
Texts(segs) == [i \in 1..Len(segs) |-> strip(segs[i])]

\* The call of task t returns on its worker and the task resumes (lines
\* 149-152, 210-213).
infer_return(t, results) ==
    /\ pc[t] = "running"
    /\ Live(t)
    /\ \E o \in transcribe(kindOf(t), results) :
         LET n == NextCall(pc)
         IN  /\ queue' = n.queue
             /\ window' = [window EXCEPT ![t] = <<>>]
             /\ served' = IF kindOf(t) = "slow" /\ o.engine
                          THEN [served EXCEPT ![speakerOf(t)] = TRUE]
                          ELSE served
             /\ IF o.exc # "none"
                THEN /\ pc' = [n.pc EXCEPT ![t] = after_raise(o.exc)]
                     /\ UNCHANGED <<last_fast_text, segments, response,
                                    fastHistory>>
                ELSE /\ Loop(t, o.segments, n.pc)
                     /\ IF kindOf(t) = "fast"
                        THEN /\ last_result' = [last_result EXCEPT
                                    ![speakerOf(t)] = Texts(o.segments)]
                             /\ repeated' = [repeated EXCEPT
                                    ![speakerOf(t)] =
                                        Texts(o.segments) = last_result[speakerOf(t)]]
                        ELSE UNCHANGED fastHistory
    /\ UNCHANGED <<buffers, locks, slow_offsets, session, nsessions, inbox,
                   cancel_req, orphans, accepted, submitted, tick_cursor,
                   crossed, ingestHistory>>

\* websocket.send returns (lines 163, 223): the event is out, the for loop
\* goes on.
send_return(t) ==
    /\ pc[t] = "send"
    /\ Live(t)
    /\ Loop(t, segments[t], pc)
    /\ UNCHANGED <<buffers, locks, slow_offsets, session, nsessions, inbox,
                   cancel_req, window, queue, orphans, history>>

\* websocket.send raises ConnectionClosed.
send_raise(t) ==
    /\ pc[t] = "send"
    /\ Live(t)
    /\ pc' = [pc EXCEPT ![t] = after_raise("ConnectionClosed")]
    /\ response' = [response EXCEPT ![t] = NoResponse]
    /\ segments' = [segments EXCEPT ![t] = <<>>]
    /\ UNCHANGED <<shared, session, nsessions, inbox, cancel_req, window,
                   queue, orphans, history>>

\* asyncio.sleep(1) of the except clause returns (lines 167, 231).
backoff_done(t) ==
    /\ pc[t] = "backoff"
    /\ Live(t)
    /\ pc' = [pc EXCEPT ![t] = "sleep"]
    /\ UNCHANGED <<shared, session, nsessions, inbox, cancel_req, window,
                   segments, response, queue, orphans, history>>

\* The next step of each task cancel() was called on: CancelledError is
\* raised at the await the task is suspended at.  The four wake-ups are
\* consecutive callbacks of one turn of the event loop.  A waiting call is
\* withdrawn from the queue; a running one keeps its worker.
deliver_cancel ==
    /\ \E t \in Tasks : cancel_req[t]
    /\ cancel_req' = [t \in Tasks |-> FALSE]
    /\ pc' = [t \in Tasks |->
                 IF cancel_req[t] THEN after_raise("CancelledError") ELSE pc[t]]
    /\ queue' = SelectSeq(queue, LAMBDA q : ~cancel_req[q])
    /\ orphans' = orphans
                   + Cardinality({t \in Tasks : cancel_req[t] /\ pc[t] = "running"})
    /\ window' = [t \in Tasks |-> IF cancel_req[t] THEN <<>> ELSE window[t]]
    /\ segments' = [t \in Tasks |-> IF cancel_req[t] THEN <<>> ELSE segments[t]]
    /\ response' = [t \in Tasks |->
                       IF cancel_req[t] THEN NoResponse ELSE response[t]]
    /\ UNCHANGED <<shared, session, nsessions, inbox, history>>

\* A call whose task was cancelled returns: its result is dropped.
orphan_return ==
    /\ orphans > 0
    /\ orphans' = orphans - 1
    /\ LET n == NextCall(pc)
       IN  pc' = n.pc /\ queue' = n.queue
    /\ UNCHANGED <<shared, session, nsessions, inbox, cancel_req, window,
                   segments, response, history>>

(***************************************************************************)
(* Specifications.  The environment is the client: the messages it sends   *)
(* (Msgs) and the engine: the results the fast model returns (Results).    *)
(***************************************************************************)
NextUpTo(Msgs, Results, cap) ==
    \/ server_handler
    \/ handler_exit
    \/ \E m \in Msgs : client_send(m, cap)
    \/ handle_client
    \/ \E s \in Speakers : fast_tick(s)
    \/ \E s \in Speakers : slow_tick(s)
    \/ \E t \in Tasks : infer_return(t, Results)
    \/ \E t \in Tasks : send_return(t)
    \/ \E t \in Tasks : send_raise(t)
    \/ \E t \in Tasks : backoff_done(t)
    \/ deliver_cancel
    \/ orphan_return
NextIn(Msgs, Results) == NextUpTo(Msgs, Results, MaxBuf)

OneResult == {<<<<"a">>>>}

\* The client sends whole slow windows for "user".
WindowMessages == {AudioMsg("user", Chunk(1, bytes_needed))}
Next == NextIn(WindowMessages, OneResult)
Spec == Init /\ [][Next]_vars

\* Every task that can take a step eventually takes it: the event loop runs
\* every ready coroutine, the sleeps end and the workers return.  Nothing
\* makes the client send or close.
Step(t, results) ==
    \/ kindOf(t) = "fast" /\ fast_tick(speakerOf(t))
    \/ kindOf(t) = "slow" /\ slow_tick(speakerOf(t))
    \/ infer_return(t, results)
    \/ send_return(t)
    \/ backoff_done(t)
Fairness ==
    /\ \A t \in Tasks : WF_vars(Step(t, OneResult))
    /\ WF_vars(handle_client)
    /\ WF_vars(deliver_cancel)
    /\ WF_vars(orphan_return)
FairSpec == Spec /\ Fairness

\* The client sends one chunk for either speaker, of a slow window or more
\* (a second one would pass the client's bound).
LongChunk == Max(bytes_needed, MaxBuf \div 2 + 1)
BothMessages ==
    {AudioMsg("user", Chunk(1, LongChunk)),
     AudioMsg("interviewer", Chunk(101, LongChunk))}
NextBoth == NextIn(BothMessages, OneResult)
SpecBoth == Init /\ [][NextBoth]_vars

\* The client streams the audio of "user": chunks of one slow window and
\* chunks just longer than the overlap.
SlowMessages ==
    {AudioMsg("user", Chunk(1, bytes_needed)),
     AudioMsg("user", Chunk(101, overlap_bytes + 1))}
NextSlow == NextIn(SlowMessages, OneResult)
SpecSlow == Init /\ [][NextSlow]_vars

\* The client streams short chunks for "user"; the fast model returns one
\* segment, the same text with white space around it, two segments, or a
\* segment of white space only.
FastMessages == {AudioMsg("user", Chunk(1, fast_min))}
DraftResults ==
    {<<<<"a">>>>, <<<<"a", " ">>>>, <<<<" ", "a">>, <<"b">>>>, <<<<" ">>>>}
NextFast == NextIn(FastMessages, DraftResults)
SpecFast == Init /\ [][NextFast]_vars

\* The client sends every kind of malformed message, and one chunk that is
\* well formed.
MalformedMessages ==
    {NotJson, JsonArray,
     Object(NoSpeaker, Str(ToHex(Chunk(1, 2)))),
     Object(Spk(""), Str(ToHex(Chunk(1, 2)))),
     Object(NumSpeaker, Str(ToHex(Chunk(1, 2)))),
     Object(Spk("user"), NoField),
     Object(Spk("user"), Str(<<>>)),
     Object(Spk("user"), Num),
     Object(Spk("user"), Str(<<"z", "z">>)),
     Object(Spk("interviewer"), Str(<<"0", "a", "b">>)),
     Object(Spk("bob"), Str(ToHex(Chunk(1, 2))))}
NextMalformed ==
    NextIn(MalformedMessages \cup {AudioMsg("user", Chunk(1, LongChunk))},
           OneResult)
SpecMalformed == Init /\ [][NextMalformed]_vars

\* The client streams two kinds of chunk for "user", each over half a slow
\* window.
IngestMessages ==
    {AudioMsg("user", Chunk(1, bytes_needed \div 2 + 2)),
     AudioMsg("user", Chunk(101, bytes_needed \div 2 + 1))}
NextIngest == NextIn(IngestMessages, OneResult)
SpecIngest == Init /\ [][NextIngest]_vars

\* The client sends a short chunk and a slow window for "user": the fast
\* loop meets a tail it cannot convert, an engine that raises and a send
\* that raises, the slow loop a call that raises.
LoopMessages ==
    {AudioMsg("user", Chunk(1, fast_min)),
     AudioMsg("user", Chunk(101, LongChunk))}
NextLoops == NextIn(LoopMessages, OneResult)
FairLoops == Init /\ [][NextLoops]_vars /\ Fairness

\* The client streams a slow window and chunks of a window less the
\* overlap for "user", up to the audio of three overlapping windows.
ThreeWindows == 3 * bytes_needed - 2 * overlap_bytes
OverlapMessages ==
    {AudioMsg("user", Chunk(1, bytes_needed)),
     AudioMsg("user", Chunk(101, bytes_needed - overlap_bytes))}
NextOverlap == NextUpTo(OverlapMessages, OneResult, ThreeWindows)
SpecOverlap == Init /\ [][NextOverlap]_vars

(***************************************************************************)
(* Properties.                                                             *)
(***************************************************************************)
slowTask(s) == <<s, "slow">>
fastTask(s) == <<s, "fast">>

\* C1: a slow-pass tick whose inference call raises leaves the processed
\* cursor where the tick found it: when the call of the slow task returns
\* with an exception (the task goes from the call to the back-off sleep),
\* slow_offsets[speaker] is the value it had when the tick began.
C1_NoCommitOnFailedInference ==
    [][\A s \in Speakers :
          (pc[slowTask(s)] = "running" /\ pc'[slowTask(s)] = "backoff")
              => slow_offsets'[s] = tick_cursor[s]]_vars

\* Byte offset i of the speaker's buffer lies in a window the slow pass
\* handed to run_in_executor.
Presented(s, i) ==
    \E k \in 1..Len(submitted[s]) :
        submitted[s][k][1] <= i /\ i < submitted[s][k][2]

\* C2: every byte below the committed slow cursor has been in at least one
\* window submitted to a slow-pass inference call.
C2_CommittedBytesWerePresented ==
    \A s \in Speakers :
        \A i \in 0..(slow_offsets[s] - 1) : Presented(s, i)

\* C3: two consecutive windows submitted to slow-pass inference share at
\* least the overlap: the later one starts no later than overlap_bytes
\* before the end of the earlier one (unless the whole buffer is shorter
\* than the overlap).
C3_ConsecutiveWindowsOverlap ==
    \A s \in Speakers :
        \/ Len(buffers[s]) < overlap_bytes
        \/ \A k \in 1..(Len(submitted[s]) - 1) :
               submitted[s][k + 1][1] <= submitted[s][k][2] - overlap_bytes


\* C4: when a result of the fast pass has the stripped texts of the result
\* before it (for the same speaker), no draft event is emitted for it: the
\* fast task hands no response to websocket.send while it loops over it.
C4_RepeatedResultEmitsNothing ==
    \A s \in Speakers : repeated[s] => pc[fastTask(s)] # "send"


\* C5: whenever a speaker's buffer holds at least one slow window of audio
\* beyond the slow cursor and the session is open, then eventually the
\* final engine is called for a window of that speaker (or the session has
\* ended).
Unprocessed(s) == Len(buffers[s]) - slow_offsets[s]
C5_WindowReachesFinalEngine ==
    \A s \in Speakers :
        (session = "open" /\ Unprocessed(s) >= bytes_needed)
            ~> (session = "closed" \/ served[s])


\* C6: when a connection is established (server_handler starts), every
\* speaker's buffer is empty, its slow cursor is 0 and its last draft text
\* is empty.
C6_FreshStateOnConnect ==
    [][(session = "closed" /\ session' = "open")
          => \A s \in Speakers :
                 /\ buffers'[s] = <<>>
                 /\ slow_offsets'[s] = 0
                 /\ last_fast_text'[s] = <<>>]_vars

\* C7: once handle_client has exited and until another connection is
\* served, no pass task reads or writes a buffer, a cursor or a draft text,
\* takes a lock, submits a call or hands a response to websocket.send: all
\* a task still does is end, from whichever await it was suspended at (a
\* call already waiting may still be picked up by a worker; its result is
\* dropped).  Once the cancellations are delivered every task has ended.
Ended(t) == pc[t] \in {"none", "cancelled"}
C7_CancelledTasksStop ==
    /\ [][(session = "closed" /\ session' = "closed")
             => /\ UNCHANGED <<buffers, locks, slow_offsets, last_fast_text>>
                /\ UNCHANGED <<submitted, last_result, served>>
                /\ \A t \in Tasks :
                      \/ pc'[t] = pc[t] /\ response'[t] = response[t]
                      \/ pc'[t] = "cancelled"
                      \/ pc[t] = "queued" /\ pc'[t] = "running"]_vars
    /\ []((session = "closed" /\ \A t \in Tasks : ~cancel_req[t])
             => \A t \in Tasks : Ended(t))
\* A session has ended while calls were running, and all four tasks ended.
C7_Witness ==
    /\ session = "closed"
    /\ orphans > 0
    /\ \A t \in Tasks : pc[t] = "cancelled"


\* A message is malformed: not JSON, not an object, no or an empty speaker,
\* a speaker other than "user" and "interviewer", no or an empty audio
\* member, or audio that is not an even number of hex digits.
HexString(h) == Len(h) % 2 = 0 /\ \A i \in 1..Len(h) : IsHexDigit(h[i])
Malformed(m) ==
    \/ m.kind # "object"
    \/ m.speaker.tag # "str" \/ m.speaker.v \notin Speakers
    \/ m.audio.tag # "str" \/ m.audio.v = <<>> \/ ~HexString(m.audio.v)
\* The bytes a hex string stands for.
Unhex(h) ==
    [i \in 1..(Len(h) \div 2) |-> 16 * HexVal(h[2 * i - 1]) + HexVal(h[2 * i])]
\* handle_client takes the received message in this step.
Handles == inbox # NoMessage /\ inbox' = NoMessage

\* C8: handling a malformed message leaves every buffer, cursor and draft
\* text as it was, lets no exception leave the per-message handling (the
\* connection stays open, the handler is ready for the next message), and
\* a well-formed message, also one that follows, is appended to its
\* speaker's buffer.
C8_MalformedMessageDropped ==
    /\ [][(Handles /\ Malformed(inbox))
             => /\ UNCHANGED <<buffers, slow_offsets, last_fast_text>>
                /\ session' = "open"]_vars
    /\ [][(Handles /\ ~Malformed(inbox))
             => /\ buffers' = [buffers EXCEPT
                       ![inbox.speaker.v] = @ \o Unhex(inbox.audio.v)]
                /\ session' = "open"]_vars
\* A chunk was appended after a malformed message had been dropped.
C8_Witness ==
    /\ after_drop
    /\ session = "open"
    /\ buffers["user"] # <<>>

\* The concatenation of the first k chunks accepted for speaker s.
Chunks(s, k) == Flatten([i \in 1..k |-> Unhex(accepted[s][i].audio.v)])
IsSuffix(w, b) == Len(w) <= Len(b) /\ w = SubSeq(b, Len(b) - Len(w) + 1, Len(b))

\* C9: a speaker's buffer is the concatenation, in the order of acceptance,
\* of the chunks accepted for the speaker, and the window a pass took under
\* the lock is the end of such a concatenation of whole chunks.
C9_BufferIsChunksInOrder ==
    \A s \in Speakers :
        /\ buffers[s] = Chunks(s, Len(accepted[s]))
        /\ \A k \in Kinds :
               pc[<<s, k>>] \in {"queued", "running"}
                   => \E n \in 0..Len(accepted[s]) :
                          IsSuffix(window[<<s, k>>], Chunks(s, n))
\* A pass holds a window it took before the latest of several chunks was
\* appended.
C9_Witness ==
    \E s \in Speakers, k \in Kinds :
        /\ Len(accepted[s]) >= 2
        /\ accepted[s][1] # accepted[s][2]
        /\ pc[<<s, k>>] = "running"
        /\ ~IsSuffix(window[<<s, k>>], buffers[s])


\* C10: the buffer of a speaker changes only when a chunk for that speaker
\* is ingested, the slow cursor only in a slow tick of that speaker, the
\* draft text only when a fast call of that speaker returns; no operation
\* takes the other speaker's lock; the window a pass holds is made of its
\* own speaker's audio; an event about to be sent carries the speaker of
\* the loop that made it.
C10_SpeakersAreIsolated ==
    /\ [][\A s \in Speakers :
            /\ buffers'[s] # buffers[s]
                   => Handles /\ inbox.speaker.v = s
            /\ slow_offsets'[s] # slow_offsets[s]
                   => pc[<<s, "slow">>] = "sleep" /\ ~Handles
            /\ last_fast_text'[s] # last_fast_text[s]
                   => pc[<<s, "fast">>] = "running" /\ ~Handles]_vars
    /\ [](/\ ~crossed
          /\ \A t \in Tasks :
                /\ pc[t] \in {"queued", "running"}
                       => \E n \in 0..Len(accepted[speakerOf(t)]) :
                              IsSuffix(window[t], Chunks(speakerOf(t), n))
                /\ pc[t] = "send" => response[t].speaker = speakerOf(t))
\* An event of one speaker is about to be sent while the other speaker's
\* audio is buffered and its slow cursor has moved.
C10_Witness ==
    /\ pc[<<"interviewer", "fast">>] = "send"
    /\ last_fast_text["interviewer"] # <<>>
    /\ buffers["user"] # <<>>
    /\ slow_offsets["user"] > 0
    /\ last_fast_text["user"] = <<>>


\* C11: the slow cursor of every speaker is between 0 and the length of the
\* speaker's buffer, and no step makes it smaller.
C11_CursorWithinBufferAndMonotonic ==
    /\ [](\A s \in Speakers :
             0 <= slow_offsets[s] /\ slow_offsets[s] <= Len(buffers[s]))
    /\ [][\A s \in Speakers : slow_offsets'[s] >= slow_offsets[s]]_vars
\* The cursor has been set by two submitting ticks and audio has arrived
\* since.
C11_Witness ==
    /\ Len(submitted["user"]) >= 2
    /\ slow_offsets["user"] > bytes_needed
    /\ slow_offsets["user"] < Len(buffers["user"])


\* The tasks suspended inside websocket.send (lines 163, 223).
Sending == {t \in Tasks : pc[t] = "send"}

C13_LoopsOutliveErrors ==
    /\ [][\A t \in Tasks :
            /\ (pc[t] # "cancelled" /\ pc'[t] = "cancelled") => cancel_req[t]
            /\ (pc[t] = "backoff" /\ pc'[t] # "backoff")
                   => pc'[t] = "sleep" \/ cancel_req[t]]_vars
    /\ \A t \in Tasks : []<>(session = "closed" \/ pc[t] = "sleep")
\* Both loops of a speaker are in the back-off sleep of their except clause
\* while the session is open.
C13_Witness ==
    /\ session = "open"
    /\ pc[<<"user", "fast">>] = "backoff"
    /\ pc[<<"user", "slow">>] = "backoff"


\* C14: no byte is left behind by the slow pass.  A later window starts at
\* start_index of the cursor or after it (the cursor never decreases), so a
\* byte before that start is in a submitted window only if it already was
\* in one: every byte before the start of the next window has been in a
\* window submitted to slow-pass inference.
C14_NoByteLeftBehind ==
    \A s \in Speakers :
        \A i \in 0..(start_index(slow_offsets[s]) - 1) : Presented(s, i)


\* The submitted windows of speaker s that hold byte offset i.
WindowsOf(s, i) ==
    {k \in 1..Len(submitted[s]) :
        submitted[s][k][1] <= i /\ i < submitted[s][k][2]}

\* C15: a byte of the buffer is in at most two windows submitted to
\* slow-pass inference, and a byte in two of them is within the last
\* overlap_bytes of the earlier one.
C15_AnalysedOnceModuloOverlap ==
    \A s \in Speakers :
        \A i \in 0..(Len(buffers[s]) - 1) :
            /\ Cardinality(WindowsOf(s, i)) <= 2
            /\ \A j, k \in WindowsOf(s, i) :
                   j < k => i >= submitted[s][j][2] - overlap_bytes
\* Three windows were submitted, each starting inside the one before.
C15_Witness ==
    /\ Len(submitted["user"]) >= 3
    /\ submitted["user"][2][1] < submitted["user"][1][2]
    /\ submitted["user"][3][1] < submitted["user"][2][2]


\* The fast task of speaker s takes a step.
FastStep(s) ==
    \/ pc'[fastTask(s)] # pc[fastTask(s)]
    \/ response'[fastTask(s)] # response[fastTask(s)]
    \/ segments'[fastTask(s)] # segments[fastTask(s)]

\* C16: no step of a speaker's fast loop (a tick that skips, submits or
\* fails, the return of its call, its sends, its back-off) changes the
\* speaker's buffer or slow cursor.
C16_FastPassLeavesBufferAndCursor ==
    [][\A s \in Speakers :
          FastStep(s) => /\ buffers'[s] = buffers[s]
                         /\ slow_offsets'[s] = slow_offsets[s]]_vars
\* The fast loop is sending a draft made from the tail of a buffer longer
\* than the tail, and the slow cursor has been set.
C16_Witness ==
    /\ pc[fastTask("user")] = "send"
    /\ last_fast_text["user"] # <<>>
    /\ Len(buffers["user"]) > tail_bytes
    /\ slow_offsets["user"] > 0


\* The last n elements of b, all of b if it has fewer.
LastOf(b, n) ==
    IF Len(b) <= n THEN b ELSE SubSeq(b, Len(b) - n + 1, Len(b))

\* C17: a fast tick submits a window only from a buffer of fast_min bytes
\* or more; the window is the last tail_bytes bytes of the buffer, or the
\* whole buffer if it is shorter, so it has fast_min to tail_bytes bytes;
\* with a buffer below fast_min the tick leaves the loop at its interval
\* sleep with no call, no event and no change of the draft text.
C17_FastWindowIsBoundedTail ==
    [][\A s \in Speakers :
          LET t == fastTask(s)
          IN  /\ (pc[t] = "sleep" /\ pc'[t] \in {"queued", "running"})
                     => /\ Len(buffers[s]) >= fast_min
                        /\ window'[t] = LastOf(buffers[s], tail_bytes)
                        /\ Len(window'[t]) >= fast_min
                        /\ Len(window'[t]) <= tail_bytes
              /\ (pc[t] = "sleep" /\ Len(buffers[s]) < fast_min)
                     => /\ pc'[t] = "sleep" \/ cancel_req[t]
                        /\ window'[t] = window[t]
                        /\ response'[t] = response[t]
                        /\ last_fast_text'[s] = last_fast_text[s]]_vars
\* A call is running on the last tail_bytes bytes of a longer buffer.
C17_Witness ==
    /\ pc[fastTask("user")] = "running"
    /\ Len(buffers["user"]) > tail_bytes
    /\ window[fastTask("user")] = LastOf(buffers["user"], tail_bytes)


\* The calls executing on the pool's workers: those of live tasks and those
\* whose task was cancelled while they ran.
Executing == Cardinality({t \in Tasks : pc[t] = "running"}) + orphans

\* C18: at most max_workers (two) inference calls execute at a time, calls
\* of cancelled tasks included; the calls that wait are those of the tasks
\* in the queue, and a call waits only while every worker is taken.
C18_AtMostTwoCallsExecute ==
    /\ Executing <= max_workers
    /\ \A t \in Tasks :
           pc[t] = "queued" <=> \E i \in 1..Len(queue) : queue[i] = t
    /\ queue # <<>> => Executing = max_workers
\* Both workers are taken, one by the call of a cancelled task, and a
\* third request waits.
C18_Witness ==
    /\ Executing = max_workers
    /\ orphans > 0
    /\ queue # <<>>
    /\ session = "open"


\* C19: whenever the tasks are suspended or ended, that is in every state,
\* no speaker's lock is held: each locked block, on its skip paths too, has
\* released the lock by the end of the step that took it; and a message
\* whose append needs a lock is eventually handled.
C19_NoLockHeldAcrossSuspension ==
    /\ [](\A s \in Speakers : ~locks[s])
    /\ (inbox # NoMessage) ~> (inbox = NoMessage)
\* In a second session, after a cancellation, ingest and both loops of a
\* speaker have been through their locked blocks, the slow loop is in its
\* back-off and the fast loop at a send, and no lock is held.
C19_Witness ==
    /\ nsessions = 2
    /\ session = "open"
    /\ buffers["user"] # <<>>
    /\ pc[slowTask("user")] = "backoff"
    /\ pc[fastTask("user")] = "send"
    /\ \A s \in Speakers : ~locks[s]


\* C20: a draft being sent has a text that is not empty and is the
\* speaker's last draft text; the last draft text changes only to the text
\* of a draft then sent; and a draft is sent only if its text differs from
\* the last draft text.  So a segment that is empty once stripped sends
\* nothing and leaves the last draft text, and T, empty, T sends T once.
C20_EmptyTextNeverEmitted ==
    /\ [](\A s \in Speakers :
             pc[fastTask(s)] = "send"
                 => /\ response[fastTask(s)].text # <<>>
                    /\ response[fastTask(s)].text = last_fast_text[s])
    /\ [][\A s \in Speakers :
            /\ last_fast_text'[s] # last_fast_text[s]
                   => /\ pc'[fastTask(s)] = "send"
                      /\ last_fast_text'[s] = response'[fastTask(s)].text
                      /\ last_fast_text'[s] # <<>>
            /\ (FastStep(s) /\ pc'[fastTask(s)] = "send")
                   => response'[fastTask(s)].text # last_fast_text[s]]_vars
\* The fast pass sent T, then got a result that is empty once stripped; the
\* last draft text is still T and the next call is running.
C20_Witness ==
    /\ last_fast_text["user"] = <<"a">>
    /\ last_result["user"] = <<<<>>>>
    /\ pc[fastTask("user")] = "running"

====
